---- MODULE Spec2Model ----
(***************************************************************************)
(* The room/match state machine of the XO game server (src/index.js).      *)
(*                                                                         *)
(* State: the `rooms` Map (its entries and its insertion order), the       *)
(* lifecycle of every socket, and the setTimeout callbacks that are still  *)
(* pending.  observe is no state of the program: it switches the recording *)
(* of one history field.  probe holds one call of the pure function        *)
(* checkWinner: the board it is given and what it returns.  One action per *)
(* socket.io handler and per timer callback.  What a handler replies or    *)
(* broadcasts is a function of the state it runs in and of its arguments,  *)
(* and is given by operators (CreateReply, JoinReply, RejoinReply,         *)
(* MoveEmits).  The socket.io room membership (socket.join) only selects   *)
(* the recipients of a broadcast and is not modelled.                      *)
(***************************************************************************)
EXTENDS Integers, Sequences, FiniteSets, TLC

VARIABLES rooms, order, conn, orphans, observe, probe

vars == <<rooms, order, conn, orphans, observe, probe>>

(* ------------------------------ bounds -------------------------------- *)
\* the round counter is not advanced beyond this
MaxRound == 3
\* no seat is awarded more points than this
MaxPoints == 2
\* pending timers of replaced or deleted rooms, per room id
MaxOrphans == 1

\* socket ids, in the order in which the connections are made
SocketIds == <<"s1", "s2">>
Sockets == {SocketIds[k] : k \in 1..Len(SocketIds)}
\* the identifiers generateRoomId returns
RoomIds == {"R1", "R2"}
\* client-supplied strings; "" is the missing (falsy) value
Nicknames == {"", "A"}
PlayerIds == {"", "p1", "p2"}

(* ------------------------------ values -------------------------------- *)
\* player.id of a seat whose socket is gone (null, line 258)
null == "null"
\* an empty board cell (null, line 102)
Empty == "null"
\* what board[index] yields when index is no cell of the array
Undefined == "undefined"
NoLine == <<>>
\* the loop of the disconnect handler found no room
NoRoom == "none"

\* An index argument of make-move: a JavaScript value.  type is its typeof;
\* a number is v when whole, and v + 1/2 otherwise.
Idx(t, w, v) == [type |-> t, whole |-> w, v |-> v]
IntIdx(n) == Idx("number", TRUE, n)
\* the index arguments tried: the cells given, the two integers next to the
\* range, 1.5 and the string "4"
IndexInputsOn(cells) ==
    {IntIdx(n) : n \in cells \cup {-1, 9}}
        \cup {Idx("number", FALSE, 1), Idx("string", TRUE, 4)}
\* the cells that moves are tried on
MoveCells == {0, 1, 2, 3, 8}
IndexInputs == IndexInputsOn(MoveCells)
\* one cell more: a line can be completed with a cell to spare
SixCells == {0, 1, 2, 3, 4, 8}

(* ------------------------------ helpers ------------------------------- *)
wins ==
    << <<0, 1, 2>>, <<3, 4, 5>>, <<6, 7, 8>>,
       <<0, 3, 6>>, <<1, 4, 7>>, <<2, 5, 8>>,
       <<0, 4, 8>>, <<2, 4, 6>> >>

LineWins(board, l) ==
    /\ board[l[1]] # Empty
    /\ board[l[1]] = board[l[2]]
    /\ board[l[1]] = board[l[3]]

checkWinner_Last(board) ==
    IF \A k \in 1..Len(wins) : ~LineWins(board, wins[k])
    THEN [winner |-> Empty, line |-> NoLine]
    ELSE LET k == CHOOSE j \in 1..Len(wins) :
                      /\ LineWins(board, wins[j])
                      /\ \A h \in (j + 1)..Len(wins) : ~LineWins(board, wins[h])
         IN  [winner |-> board[wins[k][1]], line |-> wins[k]]

\* the first line of wins, in order, that holds three equal marks
checkWinner(board) ==
    IF \A k \in 1..Len(wins) : ~LineWins(board, wins[k])
    THEN [winner |-> Empty, line |-> NoLine]
    ELSE LET k == CHOOSE j \in 1..Len(wins) :
                      /\ LineWins(board, wins[j])
                      /\ \A h \in 1..(j - 1) : ~LineWins(board, wins[h])
         IN  [winner |-> board[wins[k][1]], line |-> wins[k]]

EmptyBoard == [c \in 0..8 |-> Empty]

BoardFull(board) == \A c \in 0..8 : board[c] # Empty

activePlayersCount(room) ==
    Cardinality({k \in 1..Len(room.players) : room.players[k].id # null})

\* Array.prototype.find: the position of the first seat that has the socket
\* id, 0 when there is none
FindBySocket(players, s) ==
    IF \A k \in 1..Len(players) : players[k].id # s THEN 0
    ELSE CHOOSE k \in 1..Len(players) :
             players[k].id = s /\ \A h \in 1..(k - 1) : players[h].id # s

FindByPlayerId(players, pid) ==
    IF \A k \in 1..Len(players) : players[k].playerId # pid THEN 0
    ELSE CHOOSE k \in 1..Len(players) :
             players[k].playerId = pid
                 /\ \A h \in 1..(k - 1) : players[h].playerId # pid

FindBySymbol(players, sym) ==
    IF \A k \in 1..Len(players) : players[k].symbol # sym THEN 0
    ELSE CHOOSE k \in 1..Len(players) :
             players[k].symbol = sym /\ \A h \in 1..(k - 1) : players[h].symbol # sym

Seat(s, pid, nick, sym) ==
    [id |-> s, playerId |-> pid, nickname |-> nick, symbol |-> sym, points |-> 0]

\* Three fields only record what happened: roundOvers counts the round-over
\* broadcasts that carried the current round; readySeats holds the marks of
\* the seats whose socket sent ready-next-round since readySet was last
\* cleared (recorded when observe is set, which no handler changes);
\* liveSinceArm tells that a seat had a socket while the room's cleanup
\* timer was pending.
NewRoom(s, pid, nick) ==
    [players |-> <<Seat(s, pid, nick, "X")>>,
     board |-> EmptyBoard,
     currentTurn |-> "X",
     round |-> 1,
     readySet |-> {},
     readySeats |-> {},
     cleanupTimer |-> FALSE,
     roundOvers |-> 0,
     liveSinceArm |-> FALSE]

Without(f, k) == [x \in DOMAIN f \ {k} |-> f[x]]
With(f, k, v) == [x \in DOMAIN f \cup {k} |-> IF x = k THEN v ELSE f[x]]
Remove(seq, k) == SelectSeq(seq, LAMBDA x : x # k)

\* a call of checkWinner: its argument, whether it has returned, its result
Probe(b) == [board |-> b, done |-> FALSE, result |-> [winner |-> Empty, line |-> NoLine]]
\* no call is being followed
NoProbe == Probe(EmptyBoard)
\* every 9-cell board over empty, X and O
Boards == [0..8 -> {Empty, "X", "O"}]

(* --------------------------- initial state ---------------------------- *)
Init ==
    /\ rooms = <<>>
    /\ order = <<>>
    /\ conn = [s \in Sockets |-> "new"]
    /\ orphans = [r \in RoomIds |-> 0]
    /\ observe = FALSE
    /\ probe = NoProbe

\* the same, with readySeats recorded
InitObserved ==
    /\ rooms = <<>>
    /\ order = <<>>
    /\ conn = [s \in Sockets |-> "new"]
    /\ orphans = [r \in RoomIds |-> 0]
    /\ observe = TRUE
    /\ probe = NoProbe

(* ------------------------------ sockets ------------------------------- *)
\* a client connects; socket ids are never reused
Connect(k) ==
    /\ conn[SocketIds[k]] = "new"
    /\ \A j \in 1..(k - 1) : conn[SocketIds[j]] # "new"
    /\ conn' = [conn EXCEPT ![SocketIds[k]] = "open"]
    /\ UNCHANGED <<rooms, order, orphans, observe, probe>>

(* ---------------------------- create-room ----------------------------- *)
CreateRejected(nick, pid) == nick = "" \/ pid = ""

\* rooms.set(roomId, {...}): an existing key keeps its place in the Map
StoreRoom(rid, room) ==
    /\ rooms' = With(rooms, rid, room)
    /\ order' = IF rid \in DOMAIN rooms THEN order ELSE Append(order, rid)

\* rid is what generateRoomId returns: any identifier, live or not.  The
\* timer of a room that is replaced stays pending.
CreateRoom(s, nick, pid, rid) ==
    /\ conn[s] = "open"
    /\ IF CreateRejected(nick, pid)
       THEN UNCHANGED <<rooms, order, orphans>>
       ELSE /\ StoreRoom(rid, NewRoom(s, pid, nick))
            /\ IF rid \in DOMAIN rooms /\ rooms[rid].cleanupTimer
               THEN /\ orphans[rid] < MaxOrphans
                    /\ orphans' = [orphans EXCEPT ![rid] = @ + 1]
               ELSE UNCHANGED orphans
    /\ UNCHANGED <<conn, observe, probe>>

CreateReply(nick, pid, rid) ==
    IF CreateRejected(nick, pid)
    THEN [success |-> FALSE, message |-> "nickname and playerId are required"]
    ELSE [success |-> TRUE, roomId |-> rid]

(* ----------------------------- join-room ------------------------------ *)
JoinError_NoFull(nick, pid, rid) ==
    IF rid \notin DOMAIN rooms THEN "Room not found"
    ELSE IF nick = "" \/ pid = "" THEN "nickname and playerId are required"
    ELSE ""

JoinError(nick, pid, rid) ==
    IF rid \notin DOMAIN rooms THEN "Room not found"
    ELSE IF nick = "" \/ pid = "" THEN "nickname and playerId are required"
    ELSE IF Len(rooms[rid].players) >= 2 THEN "Room is full"
    ELSE ""

Joined(room, s, nick, pid) ==
    [room EXCEPT !.players = Append(@, Seat(s, pid, nick, "O")),
                 !.liveSinceArm = room.cleanupTimer]

JoinRoom(s, nick, pid, rid) ==
    /\ conn[s] = "open"
    /\ IF JoinError(nick, pid, rid) # ""
       THEN UNCHANGED rooms
       ELSE rooms' = [rooms EXCEPT ![rid] = Joined(@, s, nick, pid)]
    /\ UNCHANGED <<order, conn, orphans, observe, probe>>

JoinReply(nick, pid, rid) ==
    IF JoinError(nick, pid, rid) # ""
    THEN [success |-> FALSE, message |-> JoinError(nick, pid, rid)]
    ELSE [success |-> TRUE]

(* ---------------------------- rejoin-room ----------------------------- *)
RejoinError(pid, rid) ==
    IF rid \notin DOMAIN rooms THEN "Room not found"
    ELSE IF FindByPlayerId(rooms[rid].players, pid) = 0 THEN "Seat not found"
    ELSE ""

Rejoined_KeepTimer(room, s, pid) ==
    [room EXCEPT !.players[FindByPlayerId(room.players, pid)].id = s]

\* lines 139-146
Rejoined(room, s, pid) ==
    [room EXCEPT !.players[FindByPlayerId(room.players, pid)].id = s,
                 !.cleanupTimer = FALSE,
                 !.liveSinceArm = FALSE]

RejoinRoom(s, pid, rid) ==
    /\ conn[s] = "open"
    /\ IF RejoinError(pid, rid) # ""
       THEN UNCHANGED rooms
       ELSE rooms' = [rooms EXCEPT ![rid] = Rejoined(@, s, pid)]
    /\ UNCHANGED <<order, conn, orphans, observe, probe>>

RejoinReply(pid, rid) ==
    IF RejoinError(pid, rid) # ""
    THEN [success |-> FALSE, message |-> RejoinError(pid, rid)]
    ELSE [success |-> TRUE]

(* ----------------------------- make-move ------------------------------ *)
IndexOutOfRange(idx) ==
    \/ idx.type # "number"
    \/ idx.v < 0
    \/ idx.v > 8 \/ (idx.v = 8 /\ ~idx.whole)

BoardAt(board, idx) ==
    IF idx.whole /\ idx.v \in 0..8 THEN board[idx.v] ELSE Undefined

MoveAccepted_AnyTurn(s, rid, idx) ==
    /\ rid \in DOMAIN rooms
    /\ FindBySocket(rooms[rid].players, s) # 0
    /\ ~IndexOutOfRange(idx)
    /\ BoardAt(rooms[rid].board, idx) = Empty

\* the guards of lines 154-162, in order
MoveAccepted(s, rid, idx) ==
    /\ rid \in DOMAIN rooms
    /\ FindBySocket(rooms[rid].players, s) # 0
    /\ ~IndexOutOfRange(idx)
    /\ BoardAt(rooms[rid].board, idx) = Empty
    /\ rooms[rid].currentTurn =
           rooms[rid].players[FindBySocket(rooms[rid].players, s)].symbol

ApplyMove_KeepTurn(room, sym, c) ==
    [room EXCEPT !.board[c] = sym]

\* lines 164-165
ApplyMove(room, sym, c) ==
    [room EXCEPT !.board[c] = sym,
                 !.currentTurn = IF sym = "X" THEN "O" ELSE "X"]

RoundIsOver(board) ==
    checkWinner(board).winner # Empty \/ BoardFull(board)

EndRound_TwoPoints(room) ==
    LET w == FindBySymbol(room.players, checkWinner(room.board).winner)
    IN  [room EXCEPT !.players = IF w = 0 THEN @
                                 ELSE [@ EXCEPT ![w].points = @ + 2],
                     !.roundOvers = @ + 1,
                     !.readySet = {},
                     !.readySeats = {}]

\* lines 178-201: the scoring rule, the round-over broadcast, readySet.clear()
EndRound(room) ==
    LET w == FindBySymbol(room.players, checkWinner(room.board).winner)
    IN  [room EXCEPT !.players = IF w = 0 THEN @
                                 ELSE [@ EXCEPT ![w].points = @ + 1],
                     !.roundOvers = @ + 1,
                     !.readySet = {},
                     !.readySeats = {}]

Moved(room, sym, c) ==
    LET r1 == ApplyMove(room, sym, c)
    IN  IF RoundIsOver(r1.board) THEN EndRound(r1) ELSE r1

WithinPoints(room) ==
    \A k \in 1..Len(room.players) : room.players[k].points <= MaxPoints

MakeMove(s, rid, idx) ==
    /\ conn[s] = "open"
    /\ IF MoveAccepted(s, rid, idx)
       THEN LET room == rooms[rid]
                sym == room.players[FindBySocket(room.players, s)].symbol
                new == Moved(room, sym, idx.v)
            IN  /\ WithinPoints(new)
                /\ rooms' = [rooms EXCEPT ![rid] = new]
       ELSE UNCHANGED rooms
    /\ UNCHANGED <<order, conn, orphans, observe, probe>>

\* the broadcasts of one make-move, in order
MoveEmits(s, rid, idx) ==
    IF ~MoveAccepted(s, rid, idx) THEN <<>>
    ELSE LET room == rooms[rid]
             sym == room.players[FindBySocket(room.players, s)].symbol
             r1 == ApplyMove(room, sym, idx.v)
             upd == [event |-> "update-board", board |-> r1.board,
                     currentTurn |-> r1.currentTurn, lastMoveIndex |-> idx.v]
         IN  IF RoundIsOver(r1.board)
             THEN <<upd, [event |-> "round-over",
                          winner |-> checkWinner(r1.board).winner,
                          winningLine |-> checkWinner(r1.board).line,
                          round |-> r1.round]>>
             ELSE <<upd>>

(* -------------------------- ready-next-round -------------------------- *)
AdvanceRound_KeepTurn(room) ==
    [room EXCEPT !.round = @ + 1,
                 !.board = EmptyBoard,
                 !.readySet = {},
                 !.readySeats = {},
                 !.roundOvers = 0]

\* lines 215-233
AdvanceRound(room) ==
    [room EXCEPT !.round = @ + 1,
                 !.board = EmptyBoard,
                 !.currentTurn = IF (room.round + 1) % 2 = 1 THEN "X" ELSE "O",
                 !.readySet = {},
                 !.readySeats = {},
                 !.roundOvers = 0]

\* the marks of the seats that socket s holds
SeatsOf(room, s) ==
    {room.players[k].symbol : k \in {j \in 1..Len(room.players) : room.players[j].id = s}}

Readied(room, s) ==
    LET r1 == [room EXCEPT !.readySet = @ \cup {s},
                           !.readySeats = IF observe THEN @ \cup SeatsOf(room, s)
                                          ELSE @]
    IN  IF Cardinality(r1.readySet) >= 2 THEN AdvanceRound(r1) ELSE r1

ReadyNextRound(s, rid) ==
    /\ conn[s] = "open"
    /\ IF rid \in DOMAIN rooms
       THEN LET new == Readied(rooms[rid], s)
            IN  /\ new.round <= MaxRound
                /\ rooms' = [rooms EXCEPT ![rid] = new]
       ELSE UNCHANGED rooms
    /\ UNCHANGED <<order, conn, orphans, observe, probe>>

(* ---------------------------- reset-scores ---------------------------- *)
ScoresReset(room) ==
    [room EXCEPT !.players = [k \in 1..Len(room.players) |->
                                 [room.players[k] EXCEPT !.points = 0]]]

ResetScores(s, rid) ==
    /\ conn[s] = "open"
    /\ IF rid \in DOMAIN rooms
       THEN rooms' = [rooms EXCEPT ![rid] = ScoresReset(@)]
       ELSE UNCHANGED rooms
    /\ UNCHANGED <<order, conn, orphans, observe, probe>>

(* ----------------------------- disconnect ----------------------------- *)
\* scheduleRoomCleanup, lines 70-75: arm the timer unless one is pending
Scheduled(room) ==
    IF room.cleanupTimer THEN room
    ELSE [room EXCEPT !.cleanupTimer = TRUE, !.liveSinceArm = FALSE]

Left_DropSeat(room, s) ==
    [room EXCEPT !.players =
        [k \in 1..(Len(@) - 1) |->
            IF k < FindBySocket(room.players, s) THEN @[k] ELSE @[k + 1]]]

\* lines 258-270 on the room the loop stops at
Left(room, s) ==
    LET r1 == [room EXCEPT !.players[FindBySocket(room.players, s)].id = null]
    IN  IF activePlayersCount(r1) = 0 THEN Scheduled(r1) ELSE r1

\* the first room, in the Map's order, that seats the socket; 0 if none
FirstRoomOf(s) ==
    LET hits == {k \in 1..Len(order) : FindBySocket(rooms[order[k]].players, s) # 0}
    IN  IF hits = {} THEN NoRoom
        ELSE order[CHOOSE k \in hits : \A h \in hits : k <= h]

Disconnect_EveryRoom(s) ==
    /\ conn[s] = "open"
    /\ conn' = [conn EXCEPT ![s] = "closed"]
    /\ rooms' = [r \in DOMAIN rooms |->
                     IF FindBySocket(rooms[r].players, s) # 0
                     THEN Left(rooms[r], s) ELSE rooms[r]]
    /\ UNCHANGED <<order, orphans, observe, probe>>

Disconnect(s) ==
    /\ conn[s] = "open"
    /\ conn' = [conn EXCEPT ![s] = "closed"]
    /\ IF FirstRoomOf(s) # NoRoom
       THEN rooms' = [rooms EXCEPT ![FirstRoomOf(s)] = Left(@, s)]
       ELSE UNCHANGED rooms
    /\ UNCHANGED <<order, orphans, observe, probe>>

(* --------------------------- cleanup timers --------------------------- *)
DeleteRoom(rid) ==
    /\ rooms' = Without(rooms, rid)
    /\ order' = Remove(order, rid)

\* the callback of lines 75-86 when the timer is the one the room holds
CleanupFire(rid) ==
    /\ rid \in DOMAIN rooms
    /\ rooms[rid].cleanupTimer
    /\ IF activePlayersCount(rooms[rid]) = 0
       THEN DeleteRoom(rid)
       ELSE /\ rooms' = [rooms EXCEPT ![rid].cleanupTimer = FALSE,
                                      ![rid].liveSinceArm = FALSE]
            /\ UNCHANGED order
    /\ UNCHANGED <<conn, orphans, observe, probe>>

\* the same callback when the timer was armed for a room that has since been
\* replaced or deleted: it acts on whatever room now has the id.  Deleting
\* that room leaves its own timer pending; otherwise clearTimeout cancels it.
OrphanFire(rid) ==
    /\ orphans[rid] > 0
    /\ IF rid \notin DOMAIN rooms
       THEN /\ orphans' = [orphans EXCEPT ![rid] = @ - 1]
            /\ UNCHANGED <<rooms, order>>
       ELSE IF activePlayersCount(rooms[rid]) = 0
       THEN /\ DeleteRoom(rid)
            /\ orphans' = [orphans EXCEPT ![rid] =
                              IF rooms[rid].cleanupTimer THEN @ ELSE @ - 1]
       ELSE /\ rooms' = [rooms EXCEPT ![rid].cleanupTimer = FALSE,
                                      ![rid].liveSinceArm = FALSE]
            /\ orphans' = [orphans EXCEPT ![rid] = @ - 1]
            /\ UNCHANGED order
    /\ UNCHANGED <<conn, observe, probe>>

(* --------------------------- status query ----------------------------- *)
roomSnapshot(rid) ==
    IF rid \notin DOMAIN rooms THEN Undefined
    ELSE [roomId |-> rid,
          round |-> rooms[rid].round,
          currentTurn |-> rooms[rid].currentTurn,
          board |-> rooms[rid].board,
          players |-> [k \in 1..Len(rooms[rid].players) |->
              [playerId |-> rooms[rid].players[k].playerId,
               nickname |-> rooms[rid].players[k].nickname,
               symbol |-> rooms[rid].players[k].symbol,
               points |-> rooms[rid].players[k].points,
               socketId |-> rooms[rid].players[k].id]]]

(* --------------------------- specification ---------------------------- *)
\* every handler, on events from the first n sockets that name the rooms
\* rids, the player ids pids and the indices idxs
HandlersOn(n, rids, pids, idxs) ==
    \/ \E k \in 1..n, nick \in Nicknames, p \in pids, r \in rids :
          CreateRoom(SocketIds[k], nick, p, r)
    \/ \E k \in 1..n, nick \in Nicknames, p \in pids, r \in rids :
          JoinRoom(SocketIds[k], nick, p, r)
    \/ \E k \in 1..n, p \in pids, r \in rids : RejoinRoom(SocketIds[k], p, r)
    \/ \E k \in 1..n, r \in rids, i \in idxs : MakeMove(SocketIds[k], r, i)
    \/ \E k \in 1..n, r \in rids : ReadyNextRound(SocketIds[k], r)
    \/ \E k \in 1..n, r \in rids : ResetScores(SocketIds[k], r)
    \/ \E k \in 1..n : Disconnect(SocketIds[k])
    \/ \E r \in rids : CleanupFire(r)
    \/ \E r \in rids : OrphanFire(r)

\* the same, and the connection of a socket
NextOn(n, rids, pids, idxs) ==
    \/ \E k \in 1..n : Connect(k)
    \/ HandlersOn(n, rids, pids, idxs)

\* one room identifier, moves on MoveCells
Next == NextOn(Len(SocketIds), {"R1"}, PlayerIds, IndexInputs)

Spec == Init /\ [][Next]_vars

\* one room identifier, one player id, moves on SixCells
NextSix == NextOn(Len(SocketIds), {"R1"}, {"", "p1"}, IndexInputsOn(SixCells))

SpecSix == Init /\ [][NextSix]_vars

\* as Spec, with readySeats recorded
SpecObserved == InitObserved /\ [][Next]_vars

\* one room identifier, one player id, moves on MoveCells
NextOne == NextOn(Len(SocketIds), {"R1"}, {"", "p1"}, IndexInputs)

SpecOne == Init /\ [][NextOne]_vars

\* one cell and an index out of range
OneCellInputs == {IntIdx(0), IntIdx(9)}

\* both room identifiers, one player id, moves on one cell
NextRooms == NextOn(Len(SocketIds), RoomIds, {"", "p1"}, OneCellInputs)

SpecRooms == Init /\ [][NextRooms]_vars

\* one room identifier, one player id, moves on one cell; a pending timer
\* callback is eventually run unless it is cancelled
NextFair == NextOn(Len(SocketIds), {"R1"}, {"", "p1"}, OneCellInputs)

TimersFire ==
    \A r \in RoomIds : WF_vars(CleanupFire(r)) /\ WF_vars(OrphanFire(r))

SpecFair == Init /\ [][NextFair]_vars /\ TimersFire

\* Round 1 after the accepted moves X 0, O 1, X 2, O 4, X 3, O 5 of two
\* seated sockets: no line is complete, X is to move, cells 6, 7, 8 are free
MidGameBoard ==
    [c \in 0..8 |-> IF c \in {0, 2, 3} THEN "X"
                    ELSE IF c \in {1, 4, 5} THEN "O" ELSE Empty]

MidGameRoom ==
    [Joined(NewRoom("s1", "p1", "A"), "s2", "A", "p2") EXCEPT !.board = MidGameBoard]

InitMidGame ==
    /\ rooms = [r \in {"R1"} |-> MidGameRoom]
    /\ order = <<"R1">>
    /\ conn = [s \in Sockets |-> "open"]
    /\ orphans = [r \in RoomIds |-> 0]
    /\ observe = FALSE
    /\ probe = NoProbe

\* one room identifier, moves on the cells that are free in MidGameBoard;
\* every socket is connected already
NextEndgame == HandlersOn(Len(SocketIds), {"R1"}, PlayerIds, IndexInputsOn({6, 7, 8}))

SpecEndgame == InitMidGame /\ [][NextEndgame]_vars

\* checkWinner alone, called once on any board
InitWinner ==
    /\ rooms = <<>>
    /\ order = <<>>
    /\ conn = [s \in Sockets |-> "new"]
    /\ orphans = [r \in RoomIds |-> 0]
    /\ observe = FALSE
    /\ probe \in {Probe(b) : b \in Boards}

CheckWinner ==
    /\ ~probe.done
    /\ probe' = [probe EXCEPT !.done = TRUE, !.result = checkWinner(probe.board)]
    /\ UNCHANGED <<rooms, order, conn, orphans, observe>>

NextWinner == CheckWinner

SpecWinner == InitWinner /\ [][NextWinner]_vars

(* ------------------------------ properties ---------------------------- *)
AllIndexInputs == IndexInputsOn(SixCells)

Other(sym) == IF sym = "X" THEN "O" ELSE "X"

SeatNumbers(r) == 1..Len(rooms[r].players)

Marks(board) == {c \in 0..8 : board[c] # Empty}

\* the rooms live before and after the step
Kept == DOMAIN rooms \cap DOMAIN rooms'

\* what the acceptance of a move is said to be equivalent to
C1_Claimed(s, r, i) ==
    /\ r \in DOMAIN rooms
    /\ i.type = "number" /\ i.whole /\ i.v \in 0..8
    /\ rooms[r].board[i.v] = Empty
    /\ \E k \in SeatNumbers(r) :
          /\ rooms[r].players[k].id = s
          /\ rooms[r].players[k].symbol = rooms[r].currentTurn

\* C1: a make-move from connection c naming room R and index i is accepted
\* if and only if R is in the store, i is an integer in 0..8, board[i] is
\* empty, and some seat of R has connection id c and the mark currentTurn.
C1_MoveAcceptedIff ==
    \A s \in Sockets, r \in RoomIds, i \in AllIndexInputs :
        conn[s] = "open" => (MoveAccepted(s, r, i) <=> C1_Claimed(s, r, i))

\* C2: in every room, the round-over broadcast that carries the current
\* round number has been emitted at most once.
C2_RoundOverOnce ==
    \A r \in DOMAIN rooms : rooms[r].roundOvers <= 1

\* C3: the round of a room advances only by a ready-next-round that leaves
\* both of the room's two seats acknowledged: the occupant of each seat has
\* sent ready-next-round since the acknowledgments were last cleared.
C3_AdvanceNeedsBothSeats ==
    [][\A r \in Kept :
          rooms'[r].round = rooms[r].round + 1 =>
              \E s \in Sockets :
                  /\ ReadyNextRound(s, r)
                  /\ Len(rooms[r].players) = 2
                  /\ rooms[r].readySeats \cup SeatsOf(rooms[r], s) = {"X", "O"}]_vars

\* C4: a room leaves the store only by the expiry of its cleanup timer, and
\* only if no seat of the room had a live connection at any moment since
\* that timer was armed.
C4_DeletedOnlyAfterIdleWindow ==
    [][\A r \in DOMAIN rooms :
          r \notin DOMAIN rooms' =>
              rooms[r].cleanupTimer /\ ~rooms[r].liveSinceArm]_vars

\* C5: every identifier in a room's readySet is the connection id of a seat
\* of that room, and that connection is open.
C5_ReadyAcksAreLiveSeats ==
    \A r \in DOMAIN rooms : \A a \in rooms[r].readySet :
        /\ conn[a] = "open"
        /\ \E k \in SeatNumbers(r) : rooms[r].players[k].id = a

\* no room that stays in the store has its currentTurn changed
TurnsUnchanged ==
    \A q \in Kept : rooms'[q].currentTurn = rooms[q].currentTurn

\* a ready-next-round of s on r brings readySet to 2 entries
Advances(s, r) ==
    /\ r \in DOMAIN rooms
    /\ Cardinality(rooms[r].readySet \cup {s}) >= 2

\* a handler that the claim says leaves currentTurn alone
C6_Bystander ==
    \E s \in Sockets, r \in RoomIds :
        \/ Disconnect(s)
        \/ CleanupFire(r)
        \/ OrphanFire(r)
        \/ \E i \in AllIndexInputs : ~MoveAccepted(s, r, i) /\ MakeMove(s, r, i)
        \/ \E n \in Nicknames, p \in PlayerIds : JoinRoom(s, n, p, r)
        \/ \E p \in PlayerIds : RejoinRoom(s, p, r)
        \/ ResetScores(s, r)
        \/ ~Advances(s, r) /\ ReadyNextRound(s, r)

\* what an accepted move on cell i.v of room r must leave behind
C6_Flipped(r, i) ==
    /\ rooms'[r].board[i.v] \in {"X", "O"}
    /\ rooms[r].board[i.v] = Empty
    /\ rooms'[r].currentTurn = Other(rooms'[r].board[i.v])
    /\ rooms'[r].currentTurn # rooms[r].currentTurn

\* the three parts of the statement, on one step
C6_Step ==
    /\ TurnsUnchanged \/ ~C6_Bystander
    /\ \A r \in DOMAIN rooms, s \in Sockets, i \in AllIndexInputs :
          (conn[s] = "open" /\ MoveAccepted(s, r, i) /\ ~C6_Flipped(r, i)) =>
              ~MakeMove(s, r, i)
    /\ \A q \in Kept :
          rooms'[q].currentTurn # rooms[q].currentTurn =>
              \/ \E s \in Sockets, i \in AllIndexInputs :
                     MoveAccepted(s, q, i) /\ MakeMove(s, q, i)
              \/ \E s \in Sockets : Advances(s, q) /\ ReadyNextRound(s, q)
              \/ \E s \in Sockets, n \in Nicknames, p \in PlayerIds :
                     ~CreateRejected(n, p) /\ CreateRoom(s, n, p, q)

\* C6: an accepted move leaves currentTurn at the mark that did not just
\* move (no accepted make-move step ends otherwise); a rejected move, a join,
\* a rejoin, a reset-scores, a disconnect, a ready-next-round that does not
\* advance the round and a timer expiry leave the currentTurn of every room
\* unchanged; and the currentTurn of a room that stays in the store changes
\* only by an accepted move, by a round advance, or when create-room stores a
\* new room under its id.
C6_TurnAlternates == [][rooms' = rooms \/ C6_Step]_vars

\* an accepted first move of X has acted: it is O's turn
C6_Witness ==
    \E r \in DOMAIN rooms :
        /\ Marks(rooms[r].board) = {0}
        /\ rooms[r].board[0] = "X"
        /\ rooms[r].round = 1
        /\ rooms[r].currentTurn = "O"

\* new is old after one round advance
AdvancedFrom(old, new) ==
    /\ new.round = old.round + 1
    /\ \A c \in 0..8 : new.board[c] = Empty
    /\ DOMAIN new.board = 0..8
    /\ new.currentTurn = IF new.round % 2 = 1 THEN "X" ELSE "O"
    /\ new.readySet = {}
    /\ new.players = old.players

\* what a ready-next-round, if the step is one, leaves behind
C7_Step ==
       /\ \A s \in Sockets, r \in DOMAIN rooms :
             ReadyNextRound(s, r) =>
                 /\ \A q \in DOMAIN rooms \ {r} : q \in DOMAIN rooms' /\ rooms'[q] = rooms[q]
                 /\ r \in DOMAIN rooms'
                 /\ IF Cardinality(rooms[r].readySet \cup {s}) >= 2
                    THEN AdvancedFrom(rooms[r], rooms'[r])
                    ELSE /\ rooms'[r].readySet = rooms[r].readySet \cup {s}
                         /\ rooms'[r].round = rooms[r].round
                         /\ rooms'[r].board = rooms[r].board
                         /\ rooms'[r].currentTurn = rooms[r].currentTurn
                         /\ rooms'[r].players = rooms[r].players
                         /\ rooms'[r].cleanupTimer = rooms[r].cleanupTimer
       /\ \A q \in Kept :
             rooms'[q].round > rooms[q].round => AdvancedFrom(rooms[q], rooms'[q])

\* C7: a ready-next-round that brings readySet to 2 entries increments round
\* by exactly 1, empties all 9 cells, sets currentTurn to X when the new
\* round is odd and to O when it is even, leaves readySet empty and leaves
\* the seats and their points unchanged; one that brings readySet to fewer
\* than 2 entries changes nothing but readySet; and whenever the round of a
\* room grows, it grows in this way.
C7_RoundAdvance == [][rooms' = rooms \/ C7_Step]_vars

\* the round advanced twice after a round that X won: round 3 starts with X
\* to move, the winner's point kept
C7_Witness ==
    \E r \in DOMAIN rooms :
        /\ rooms[r].round = 3
        /\ rooms[r].currentTurn = "X"
        /\ Marks(rooms[r].board) = {}
        /\ rooms[r].readySet = {}
        /\ \E k \in SeatNumbers(r) : rooms[r].players[k].points = 1

\* what a matching rejoin-room, if the step is one, leaves behind
C8_Step ==
       \A s \in Sockets, p \in PlayerIds, r \in DOMAIN rooms :
          (RejoinRoom(s, p, r) /\ \E k \in SeatNumbers(r) : rooms[r].players[k].playerId = p) =>
              /\ r \in DOMAIN rooms'
              /\ ~rooms'[r].cleanupTimer
              /\ Len(rooms'[r].players) = Len(rooms[r].players)
              /\ \E k \in SeatNumbers(r) :
                    /\ rooms[r].players[k].playerId = p
                    /\ rooms'[r].players[k].id = s
                    /\ \A j \in SeatNumbers(r) \ {k} :
                          rooms'[r].players[j].id = rooms[r].players[j].id
              /\ \A j \in SeatNumbers(r) :
                    /\ rooms'[r].players[j].symbol = rooms[r].players[j].symbol
                    /\ rooms'[r].players[j].points = rooms[r].players[j].points
                    /\ rooms'[r].players[j].playerId = rooms[r].players[j].playerId
                    /\ rooms'[r].players[j].nickname = rooms[r].players[j].nickname
              /\ rooms'[r].board = rooms[r].board
              /\ rooms'[r].currentTurn = rooms[r].currentTurn
              /\ rooms'[r].round = rooms[r].round

\* C8: a rejoin-room whose playerId matches a seat of the room binds that
\* seat's connection id to the caller and leaves the room with no cleanup
\* timer; the number of seats, every seat's mark, points, playerId and
\* nickname, the connection id of the other seat, and the board, currentTurn
\* and round are unchanged.
C8_RejoinRebinds == [][rooms' = rooms \/ C8_Step]_vars

\* the second socket joined as O, moved as O, and then took over the X seat
\* as well: only a rejoin-room gives the socket that joined the first seat
\* of a room whose board holds an O
C8_Witness ==
    \E r \in DOMAIN rooms :
        /\ Len(rooms[r].players) = 2
        /\ rooms[r].players[1].id = "s2"
        /\ rooms[r].players[2].id = "s2"
        /\ rooms[r].players[1].playerId = "p1"
        /\ rooms[r].players[2].playerId = "p2"
        /\ \E c \in 0..8 : rooms[r].board[c] = "O"
        /\ ~rooms[r].cleanupTimer

\* C9: a successful create-room stores the new room under an identifier that
\* no live room has: the number of live rooms grows by exactly one and every
\* room that was live keeps its state.
C9_CreateAllocatesFreshId ==
    [][\A s \in Sockets, n \in Nicknames, p \in PlayerIds, r \in RoomIds :
          (CreateRoom(s, n, p, r) /\ ~CreateRejected(n, p)) =>
              /\ r \notin DOMAIN rooms
              /\ Cardinality(DOMAIN rooms') = Cardinality(DOMAIN rooms) + 1
              /\ \A q \in DOMAIN rooms : q \in DOMAIN rooms' /\ rooms'[q] = rooms[q]]_vars

\* C10: no two seats of a room have the same playerId.
C10_PlayerIdsUnique ==
    \A r \in DOMAIN rooms : \A j, k \in SeatNumbers(r) :
        j # k => rooms[r].players[j].playerId # rooms[r].players[k].playerId

\* the seats of every live room: one or two, X first, O second
C11_Shape ==
    \A r \in DOMAIN rooms :
        /\ Len(rooms[r].players) \in {1, 2}
        /\ rooms[r].players[1].symbol = "X"
        /\ Len(rooms[r].players) = 2 => rooms[r].players[2].symbol = "O"

\* the step stores a new room under r
C11_Created(r) ==
    \E s \in Sockets, n \in Nicknames, p \in PlayerIds :
        ~CreateRejected(n, p) /\ CreateRoom(s, n, p, r)

\* every seat of a room that stays in the store is still there, at its
\* position, with its mark and its player
C11_SeatsKept ==
    \A r \in Kept :
        \/ /\ Len(rooms'[r].players) >= Len(rooms[r].players)
           /\ \A k \in SeatNumbers(r) :
                 /\ rooms'[r].players[k].symbol = rooms[r].players[k].symbol
                 /\ rooms'[r].players[k].playerId = rooms[r].players[k].playerId
                 /\ rooms'[r].players[k].nickname = rooms[r].players[k].nickname
        \/ C11_Created(r)

\* C11: every live room has 1 or 2 seats, the first with mark X and the
\* second, if present, with mark O; and no step removes a seat of a room,
\* moves it to another position or changes its mark (a create-room that
\* stores a new room under the id starts a new room).
C11_SeatsStable ==
    []C11_Shape /\ [][rooms' = rooms \/ C11_SeatsKept]_vars

\* both seats are taken and the creator's socket has gone: the X seat is
\* kept, marked disconnected
C11_Witness ==
    \E r \in DOMAIN rooms :
        /\ Len(rooms[r].players) = 2
        /\ rooms[r].players[1].id = null
        /\ rooms[r].players[2].id = "s2"
        /\ conn["s1"] = "closed"

\* the 8 lines in scan order: the rows, then the columns, then the diagonals
C12_Lines ==
    [k \in 1..8 |->
        IF k <= 3 THEN <<3 * (k - 1), 3 * (k - 1) + 1, 3 * (k - 1) + 2>>
        ELSE IF k <= 6 THEN <<k - 4, k - 1, k + 2>>
        ELSE IF k = 7 THEN <<0, 4, 8>>
        ELSE <<2, 4, 6>>]

C12_Holds(b, l) ==
    /\ b[l[1]] \in {"X", "O"}
    /\ b[l[2]] = b[l[1]]
    /\ b[l[3]] = b[l[1]]

\* C12: on every 9-cell board over empty, X and O, checkWinner reports a
\* winner if and only if one of the 8 lines holds three equal non-empty
\* marks; it then reports the first such line in the order rows, columns,
\* diagonals, and the mark on that line; otherwise it reports no winner and
\* no line.
C12_CheckWinnerSound ==
    probe.done =>
        LET b == probe.board
            hits == {k \in 1..8 : C12_Holds(b, C12_Lines[k])}
        IN  IF hits = {}
            THEN probe.result.winner = Empty /\ probe.result.line = NoLine
            ELSE /\ probe.result.winner \in {"X", "O"}
                 /\ \E k \in hits :
                       /\ \A h \in hits : k <= h
                       /\ probe.result.line = C12_Lines[k]
                       /\ probe.result.winner = b[C12_Lines[k][1]]

\* checkWinner has returned on a board where the first row and the first
\* column both hold three X: the row is reported
C12_Witness ==
    /\ probe.done
    /\ \A c \in {0, 1, 2, 3, 6} : probe.board[c] = "X"
    /\ probe.result.line = <<0, 1, 2>>
    /\ probe.result.winner = "X"

\* every connection that holds or held a seat of live room r has closed
C13_Abandoned(r) ==
    /\ r \in DOMAIN rooms
    /\ \A k \in SeatNumbers(r) :
          rooms[r].players[k].id = null \/ conn[rooms[r].players[k].id] = "closed"

\* C13: when every connection that holds a seat of a room has closed, then,
\* unless a seat of the room gets a live connection again, the room is
\* eventually deleted from the store and the status query for its id finds
\* no room (pending timer callbacks are eventually run).
C13_AbandonedRoomDeleted ==
    \A r \in RoomIds :
        C13_Abandoned(r) ~>
            \/ r \notin DOMAIN rooms /\ roomSnapshot(r) = Undefined
            \/ ~C13_Abandoned(r)

\* the requests that are to be rejected
C14_CreateRejected(n, p) == n = "" \/ p = ""

C14_JoinRejected(n, p, r) ==
    \/ r \notin DOMAIN rooms
    \/ n = "" \/ p = ""
    \/ Len(rooms[r].players) >= 2

C14_RejoinRejected(p, r) ==
    \/ r \notin DOMAIN rooms
    \/ \A k \in SeatNumbers(r) : rooms[r].players[k].playerId # p

C14_Failure(reply) == reply.success = FALSE /\ reply.message # ""

\* the reply to every request that is to be rejected is a failure with a
\* message
C14_Replies ==
    \A n \in Nicknames, p \in PlayerIds, r \in RoomIds :
        /\ C14_CreateRejected(n, p) => C14_Failure(CreateReply(n, p, r))
        /\ C14_JoinRejected(n, p, r) => C14_Failure(JoinReply(n, p, r))
        /\ C14_RejoinRejected(p, r) => C14_Failure(RejoinReply(p, r))

\* a step that handles such a request changes no room, nor the store, nor a
\* pending timer
C14_Frame ==
    \A s \in Sockets, n \in Nicknames, p \in PlayerIds, r \in RoomIds :
        \/ C14_CreateRejected(n, p) /\ CreateRoom(s, n, p, r)
        \/ C14_JoinRejected(n, p, r) /\ JoinRoom(s, n, p, r)
        \/ C14_RejoinRejected(p, r) /\ RejoinRoom(s, p, r)
        => UNCHANGED <<rooms, order, orphans>>

\* C14: a create-room without nickname or playerId, a join-room on a room
\* that is not found, without nickname or playerId, or on a room with 2
\* seats, and a rejoin-room on a room that is not found or that has no seat
\* with the playerId, is answered with a failure reply and leaves the store,
\* every room and every pending cleanup unchanged.
C14_RejectedChangesNothing ==
    []C14_Replies /\ [][UNCHANGED <<rooms, order, orphans>> \/ C14_Frame]_vars

\* both seats of a room are taken and its cleanup is pending: a join-room
\* on it is rejected as full, a rejoin-room without playerId as having no
\* seat, and a socket is open to send them
C14_Witness ==
    \E r \in DOMAIN rooms :
        /\ Len(rooms[r].players) = 2
        /\ rooms[r].cleanupTimer
        /\ JoinReply("A", "p1", r).message = "Room is full"
        /\ RejoinReply("", r).message = "Seat not found"
        /\ \E s \in Sockets : conn[s] = "open"

\* the round played on the board is over: a line is complete or no cell is
\* empty
C15_RoundOver(board) ==
    \/ \E k \in 1..8 : C12_Holds(board, C12_Lines[k])
    \/ \A c \in 0..8 : board[c] # Empty

\* C15: the round of a room grows only when the board of the round being
\* left holds a completed line or is full; a ready-next-round on a room
\* whose round is still in progress leaves its board, round and currentTurn
\* unchanged.
C15_AdvanceOnlyAfterRoundOver ==
    [][\A r \in Kept :
          ~C15_RoundOver(rooms[r].board) =>
              /\ rooms'[r].round <= rooms[r].round
              /\ (\E s \in Sockets : ReadyNextRound(s, r)) =>
                     /\ rooms'[r].board = rooms[r].board
                     /\ rooms'[r].round = rooms[r].round
                     /\ rooms'[r].currentTurn = rooms[r].currentTurn]_vars

\* the points of the seats that room r has before the step, before and after
C16_PointsKept(r) ==
    /\ Len(rooms'[r].players) >= Len(rooms[r].players)
    /\ \A k \in SeatNumbers(r) :
          rooms'[r].players[k].points = rooms[r].players[k].points

\* the mark on the first complete line of the board, Empty if there is none
C16_Winner(board) ==
    LET hits == {k \in 1..8 : C12_Holds(board, C12_Lines[k])}
    IN  IF hits = {} THEN Empty
        ELSE board[C12_Lines[CHOOSE k \in hits : \A h \in hits : k <= h][1]]

\* index arguments on every cell
C16_Indices == IndexInputsOn(0..8)

\* the step is a move that is accepted in room r
C16_Move(r) ==
    \E s \in Sockets, i \in C16_Indices :
        MoveAccepted(s, r, i) /\ MakeMove(s, r, i)

\* the seat with the winning mark has one point more, the others as before
C16_Scored(r) ==
    \A k \in SeatNumbers(r) :
        rooms'[r].players[k].points =
            rooms[r].players[k].points
                + (IF rooms[r].players[k].symbol = C16_Winner(rooms'[r].board)
                   THEN 1 ELSE 0)

\* a handler that is to leave the points alone
C16_Bystander(r) ==
    \E s \in Sockets :
        \/ Disconnect(s)
        \/ CleanupFire(r)
        \/ OrphanFire(r)
        \/ \E i \in C16_Indices :
               ~MoveAccepted(s, r, i) /\ MakeMove(s, r, i)
        \/ \E n \in Nicknames, p \in PlayerIds : JoinRoom(s, n, p, r)
        \/ \E p \in PlayerIds : RejoinRoom(s, p, r)
        \/ ReadyNextRound(s, r)

C16_Step ==
    \A r \in Kept :
        /\ C16_Move(r) => C16_Scored(r)
        /\ (\E s \in Sockets : ResetScores(s, r)) =>
               /\ \A k \in SeatNumbers(r) : rooms'[r].players[k].points = 0
               /\ rooms'[r].board = rooms[r].board
               /\ rooms'[r].currentTurn = rooms[r].currentTurn
               /\ rooms'[r].round = rooms[r].round
        /\ C16_PointsKept(r) \/ ~C16_Bystander(r)
        /\ \/ C16_PointsKept(r)
           \/ C16_Move(r) /\ C16_Winner(rooms'[r].board) # Empty
           \/ \E s \in Sockets : ResetScores(s, r)
           \/ C11_Created(r)

C16_NonNegative ==
    \A r \in DOMAIN rooms : \A k \in SeatNumbers(r) :
        rooms[r].players[k].points \in Nat

\* C16: an accepted move that leaves a complete line on the board gives the
\* seat with the winning mark exactly 1 point and no other seat any; an
\* accepted move that leaves no line (a draw included) changes no points;
\* reset-scores sets the points of every seat to 0 and leaves board,
\* currentTurn and round unchanged; a rejected move, a ready-next-round, a
\* join, a rejoin, a disconnect and a timer expiry change no points; the
\* points of a room that stays in the store change in no other way (a
\* create-room that stores a new room under the id starts a new room); and
\* points are never negative.
C16_PointsChangeOnlyByWinOrReset ==
    []C16_NonNegative /\ [][rooms' = rooms \/ C16_Step]_vars

\* X completed the column 0, 3, 6 and holds the only point
C16_Witness ==
    \E r \in DOMAIN rooms :
        /\ \A c \in {0, 3, 6} : rooms[r].board[c] = "X"
        /\ rooms[r].roundOvers = 1
        /\ Len(rooms[r].players) = 2
        /\ rooms[r].players[1].points = 1
        /\ rooms[r].players[2].points = 0

\* the rooms whose state the step changes, or that it removes
C17_Changed == {q \in DOMAIN rooms : q \notin DOMAIN rooms' \/ rooms'[q] # rooms[q]}

\* the step handles an event of a socket that names room r
C17_Names(r) ==
    \E s \in Sockets :
        \/ \E n \in Nicknames, p \in PlayerIds : JoinRoom(s, n, p, r)
        \/ \E p \in PlayerIds : RejoinRoom(s, p, r)
        \/ \E i \in OneCellInputs : MakeMove(s, r, i)
        \/ ReadyNextRound(s, r)
        \/ ResetScores(s, r)

C17_Step ==
    /\ \A r \in RoomIds :
          \/ C17_Changed \subseteq {r} /\ DOMAIN rooms' = DOMAIN rooms
          \/ ~C17_Names(r)
    /\ (\E s \in Sockets : Disconnect(s)) =>
          Cardinality(C17_Changed) <= 1 /\ DOMAIN rooms' = DOMAIN rooms

\* C17: a join-room, rejoin-room, make-move, ready-next-round or reset-scores
\* that names room R, accepted or rejected, leaves every other room as it
\* was and adds or removes no room; the closing of one connection changes
\* the state of at most one room.
C17_RoomIsolation == [][rooms' = rooms \/ C17_Step]_vars

\* two rooms are live, both created by the first socket, which has closed:
\* its seat is marked disconnected in the first room only
C17_Witness ==
    /\ order = <<"R1", "R2">>
    /\ conn["s1"] = "closed"
    /\ rooms["R1"].players[1].id = null
    /\ rooms["R2"].players[1].id = "s1"

\* C18: no seat of a live room has the id of a connection that has closed.
C18_ClosedHoldsNoSeat ==
    \A r \in DOMAIN rooms : \A k \in SeatNumbers(r) :
        rooms[r].players[k].id # null => conn[rooms[r].players[k].id] # "closed"

\* C19: the two seats of a room never have the same connection id.
C19_SeatsOfDistinctConnections ==
    \A r \in DOMAIN rooms :
        Len(rooms[r].players) = 2 =>
            \/ rooms[r].players[1].id = null
            \/ rooms[r].players[1].id # rooms[r].players[2].id

\* the number of cells of board that hold mark
C20_Count(board, mark) == Cardinality({c \in 0..8 : board[c] = mark})

\* the mark that starts the round
C20_Starter(round) == IF round % 2 = 1 THEN "X" ELSE "O"

\* C20: on the board of every room the mark that started the current round
\* (X in odd rounds, O in even rounds) has as many cells as the other mark,
\* or one more.
C20_MarksBalanced ==
    \A r \in DOMAIN rooms :
        C20_Count(rooms[r].board, C20_Starter(rooms[r].round))
            - C20_Count(rooms[r].board, Other(C20_Starter(rooms[r].round)))
                \in {0, 1}

\* round 2, in which O has moved first and twice and X once, with the first
\* socket closed
C20_Witness ==
    \E r \in DOMAIN rooms :
        /\ rooms[r].round = 2
        /\ C20_Count(rooms[r].board, "O") = 2
        /\ C20_Count(rooms[r].board, "X") = 1
        /\ conn["s1"] = "closed"
        /\ rooms[r].currentTurn = "X"

====
